---- MODULE Spec2Model ----
(***************************************************************************)
(* A model of bitcynth/certstore: the Windows certificate store wrapper    *)
(* (winStore), the identities it yields (winIdentity) and their private    *)
(* keys (winPrivateKey), over a model of the native CryptoAPI/CNG calls    *)
(* the Go code makes.  The native layer counts the references and handles  *)
(* it hands out, so that leaks, double frees and uses of a released handle *)
(* are visible in the state.                                               *)
(***************************************************************************)
EXTENDS Integers, Sequences, FiniteSets, TLC

\* Largest number of certificates in the system store at construction.
MaxCerts == 2
\* Largest number of certificates in an imported PFX bundle.
MaxPfx == 2
\* Largest number of winIdentity objects constructed in one behaviour.
MaxIdents == 2
\* Largest number of Close() calls made on one winIdentity.
MaxCloses == 2
\* Largest number of identities an enumeration hands to the identity
\* operations.
MaxHeld == 1
\* Longest signature a native signing call writes.
MaxSig == 4

VARIABLES
    nat,      \* the native layer: store handles, contents, reference counts
    st,       \* the winStore under test (opened on the system store)
    heap,     \* every winIdentity constructed so far, in construction order
    last,     \* the operation that ran last and what it returned
    iter,     \* st's current iteration pass: the entries nextCert returned
              \* in it, and whether a reset() began it
    pk        \* the winPrivateKey under test

vars == <<nat, st, heap, last, iter, pk>>

-----------------------------------------------------------------------------
(* Values *)

Certs == 1 .. (MaxCerts + 1)

\* Store handles: the store under test, the transient PFX store of
\* importPFX, and the store FindIdentities opens for itself.
Handles == {"MY", "PFX", "FIND"}
NilHandle == "nil"

\* A certificate context is a certificate as held by one store handle.
NilCtx == <<NilHandle, 0>>
Ctxs == Handles \X Certs

\* Sequences over S without repetition, of length at most n.
InjSeqs(S, n) ==
    {q \in UNION {[1 .. k -> S] : k \in 0 .. n} :
        \A i, j \in 1 .. Len(q) : i # j => q[i] # q[j]}

RECURSIVE IndexOf(_, _, _)
IndexOf(q, x, i) ==
    IF i > Len(q) THEN 0
    ELSE IF q[i] = x THEN i
    ELSE IndexOf(q, x, i + 1)

Contains(q, x) == IndexOf(q, x, 1) # 0

-----------------------------------------------------------------------------
(* Errors: errCode, lastError, errors.New, errors.Wrap, errors.Cause *)

\* cryptENotFound: the native code that ends an iteration.
cryptENotFound == "CRYPT_E_NOT_FOUND"
\* Native codes of genuine failures.
GenuineCodes == {"E_ACCESSDENIED"}

\* An error is its chain of messages, outermost first, and the native code
\* at its root ("" when the root is an errors.New error).
NilErr == [msgs |-> <<>>, code |-> ""]
New(msg) == [msgs |-> <<msg>>, code |-> ""]
Wrap(err, msg) == [msgs |-> <<msg>> \o err.msgs, code |-> err.code]
\* errors.Cause: the root of the chain, an errCode or an errors.New message.
Cause(err) ==
    IF err.code # "" THEN err.code
    ELSE IF err.msgs = <<>> THEN ""
    ELSE err.msgs[Len(err.msgs)]

\* lastError: GetLastError() of the calling thread, wrapped with msg.
lastError(n, msg) == [msgs |-> <<msg>>, code |-> n.lastErr]

\* checkStatus on a failed SECURITY_STATUS: a securityStatus error.
securityStatus(code) == [msgs |-> <<"SECURITY_STATUS">>, code |-> code]

ErrNilStore == New("nil winStore pointer")
ErrStoreClosed == New("store closed")

-----------------------------------------------------------------------------
(* The native layer *)

\* Content of the store behind a handle: the PFX store is transient, the
\* other two handles are opened on the same system store.
Content(n, h) == IF h = "PFX" THEN n.pfx ELSE n.sys

Logged(n, call) == [n EXCEPT !.log = Append(@, call)]

\* A call that was given a store handle: using a handle that is not open
\* is a use after release.
UseStore(n, h) ==
    IF n.hs[h] = "open" THEN n ELSE [n EXCEPT !.badStore = TRUE]

\* CertDuplicateCertificateContext
DupCtx(n, ctx) ==
    [Logged(n, "CertDuplicateCertificateContext") EXCEPT !.refs[ctx] = @ + 1]

\* CertFreeCertificateContext
FreeCtx(n, ctx) ==
    LET m == Logged(n, "CertFreeCertificateContext")
    IN  IF m.refs[ctx] = 0
        THEN [m EXCEPT !.badFree = TRUE]
        ELSE [m EXCEPT !.refs[ctx] = @ - 1]

\* The reference a Find call consumes: its prev argument, when not NULL.
ConsumePrev(n, prev) ==
    IF prev = NilCtx THEN n
    ELSE IF n.refs[prev] = 0
    THEN [n EXCEPT !.badFree = TRUE]
    ELSE [n EXCEPT !.refs[prev] = @ - 1]

\* CertFindCertificateInStore(h, ..., CERT_FIND_ANY, NULL, prev): the entry
\* after prev, with a reference to it; prev is always released.  NULL with
\* CRYPT_E_NOT_FOUND past the last entry; the entry numbered n.fault[h]
\* cannot be read and fails the call with a genuine code.
CertFindCertificateInStore(n, h, prev) ==
    LET c   == Content(n, h)
        i   == (IF prev = NilCtx THEN 0 ELSE IndexOf(c, prev[2], 1)) + 1
        n1  == ConsumePrev(UseStore(Logged(n, "CertFindCertificateInStore"), h), prev)
    IN  IF i = n.fault[h]
        THEN [n |-> [n1 EXCEPT !.lastErr = n.faultCode], ret |-> NilCtx]
        ELSE IF i > Len(c)
        THEN [n |-> [n1 EXCEPT !.lastErr = cryptENotFound], ret |-> NilCtx]
        ELSE [n |-> [n1 EXCEPT !.refs[<<h, c[i]>>] = @ + 1], ret |-> <<h, c[i]>>]

\* CertCloseStore(h, 0)
CertCloseStore(n, h) ==
    LET m == Logged(n, "CertCloseStore")
    IN  IF m.hs[h] = "open"
        THEN [m EXCEPT !.hs[h] = "closed"]
        ELSE [m EXCEPT !.badStore = TRUE]

-----------------------------------------------------------------------------
(* winStore *)

NewStore(h) == [store |-> h, prev |-> NilCtx, err |-> NilErr, closed |-> FALSE]

\* winStore._check
StoreCheck(s) ==
    IF s.store = NilHandle THEN ErrNilStore
    ELSE IF s.closed THEN ErrStoreClosed
    ELSE NilErr

\* Faulty variant: nextCert that calls the native find whatever was recorded.
nextCertRetries(n, s) ==
    IF StoreCheck(s) # NilErr
    THEN [n |-> n, s |-> [s EXCEPT !.err = StoreCheck(s)], ret |-> NilCtx]
    ELSE LET f == CertFindCertificateInStore(n, s.store, s.prev)
         IN  IF f.ret = NilCtx
             THEN [n |-> f.n,
                   s |-> [s EXCEPT !.prev = NilCtx,
                                   !.err = lastError(f.n, "CertFindCertificateInStore failed")],
                   ret |-> NilCtx]
             ELSE [n |-> f.n, s |-> [s EXCEPT !.prev = f.ret], ret |-> f.ret]

\* winStore.nextCert
nextCert(n, s) ==
    LET chk == StoreCheck(s)
        s1  == IF chk # NilErr THEN [s EXCEPT !.err = chk] ELSE s
    IN  IF s1.err # NilErr
        THEN [n |-> n, s |-> s1, ret |-> NilCtx]
        ELSE LET f == CertFindCertificateInStore(n, s1.store, s1.prev)
             IN  IF f.ret = NilCtx
                 THEN [n |-> f.n,
                       s |-> [s1 EXCEPT !.prev = NilCtx,
                                        !.err = lastError(f.n, "CertFindCertificateInStore failed")],
                       ret |-> NilCtx]
                 ELSE [n |-> f.n, s |-> [s1 EXCEPT !.prev = f.ret], ret |-> f.ret]

\* Faulty variant: getError that reports the end of the iteration as well.
getErrorRaw(s) ==
    IF StoreCheck(s) # NilErr THEN StoreCheck(s) ELSE s.err

\* winStore.getError
getError(s) ==
    LET chk == StoreCheck(s)
    IN  IF chk # NilErr THEN chk
        ELSE IF Cause(s.err) = cryptENotFound THEN NilErr
        ELSE s.err

\* Faulty variant: reset that leaves the recorded error in place.
resetKeepsErr(n, s) ==
    IF StoreCheck(s) # NilErr THEN [n |-> n, s |-> s, err |-> StoreCheck(s)]
    ELSE [n |-> IF s.prev # NilCtx THEN FreeCtx(n, s.prev) ELSE n,
          s |-> [s EXCEPT !.prev = NilCtx],
          err |-> NilErr]

\* winStore.reset
reset(n, s) ==
    LET chk == StoreCheck(s)
    IN  IF chk # NilErr THEN [n |-> n, s |-> s, err |-> chk]
        ELSE [n |-> IF s.prev # NilCtx THEN FreeCtx(n, s.prev) ELSE n,
              s |-> [s EXCEPT !.prev = NilCtx, !.err = NilErr],
              err |-> NilErr]

\* Faulty variant: Close that leaves the store marked open.
StoreCloseStaysOpen(n, s) ==
    IF StoreCheck(s) # NilErr THEN [n |-> n, s |-> s]
    ELSE [n |-> CertCloseStore(IF s.prev # NilCtx THEN FreeCtx(n, s.prev) ELSE n, s.store),
          s |-> s]

\* winStore.Close
StoreClose(n, s) ==
    LET chk == StoreCheck(s)
    IN  IF chk # NilErr THEN [n |-> n, s |-> s]
        ELSE LET n1 == IF s.prev # NilCtx THEN FreeCtx(n, s.prev) ELSE n
             IN  [n |-> CertCloseStore(n1, s.store),
                  s |-> [s EXCEPT !.closed = TRUE]]

-----------------------------------------------------------------------------
(* Native private keys *)

\* What CryptFindCertificateKeyProvInfo and CryptAcquireCertificatePrivateKey
\* can answer for a certificate.
KeyOutcomes == {"nofind", "noacquire", "cached", "cng", "capi"}

CERT_NCRYPT_KEY_SPEC == "CERT_NCRYPT_KEY_SPEC"
KeySpecOf(outcome) ==
    IF outcome = "cng" THEN CERT_NCRYPT_KEY_SPEC ELSE "AT_KEYEXCHANGE"

\* The public key x509.ParseCertificate reports for a certificate
\* (nil for an algorithm it does not know).
PubOf(c) == CASE c % 3 = 1 -> "rsa" [] c % 3 = 2 -> "ec" [] OTHER -> "nil"

\* Releasing a key handle (NCryptFreeObject, CryptReleaseContext).
ReleaseKey(n, call, h) ==
    LET m == Logged(n, call)
    IN  IF h \in m.liveKeys
        THEN [m EXCEPT !.liveKeys = @ \ {h}, !.freedKeys = @ \cup {h}]
        ELSE [m EXCEPT !.badKey = TRUE]

-----------------------------------------------------------------------------
(* winPrivateKey *)

NilKey == [publicKey |-> "nil", capiProv |-> 0, cngHandle |-> 0, keySpec |-> ""]

\* Faulty variant: the handle always stored as a CryptoAPI provider.
keyOfLegacy(publicKey, provOrKey, keySpec) ==
    [publicKey |-> publicKey, capiProv |-> provOrKey, cngHandle |-> 0,
     keySpec |-> keySpec]

\* The winPrivateKey newWinPrivateKey builds from the handle and the
\* keySpec CryptAcquireCertificatePrivateKey wrote.
keyOf(publicKey, provOrKey, keySpec) ==
    IF keySpec = CERT_NCRYPT_KEY_SPEC
    THEN [publicKey |-> publicKey, capiProv |-> 0, cngHandle |-> provOrKey,
          keySpec |-> ""]
    ELSE [publicKey |-> publicKey, capiProv |-> provOrKey, cngHandle |-> 0,
          keySpec |-> keySpec]

\* newWinPrivateKey
newWinPrivateKey(n, ctx, publicKey, outcome) ==
    IF publicKey = "nil"
    THEN [n |-> n, key |-> NilKey, err |-> New("nil public key")]
    ELSE LET n1 == Logged(n, "CryptFindCertificateKeyProvInfo")
         IN  IF outcome = "nofind"
             THEN LET n2 == [n1 EXCEPT !.lastErr = "E_ACCESSDENIED"]
                  IN  [n |-> n2, key |-> NilKey,
                       err |-> lastError(n2, "failed to find private key for certificate")]
             ELSE LET n3 == Logged(n1, "CryptAcquireCertificatePrivateKey")
                  IN  IF outcome = "noacquire"
                      THEN LET n4 == [n3 EXCEPT !.lastErr = "E_ACCESSDENIED"]
                           IN  [n |-> n4, key |-> NilKey,
                                err |-> lastError(n4, "failed to get private key for certificate")]
                      ELSE IF outcome = "cached"
                      THEN [n |-> n3, key |-> NilKey,
                            err |-> New("CryptAcquireCertificatePrivateKey set mustFree")]
                      ELSE LET h  == n3.nextKey
                               n5 == [n3 EXCEPT !.nextKey = @ + 1,
                                                !.liveKeys = @ \cup {h}]
                           IN  [n |-> n5, key |-> keyOf(publicKey, h, KeySpecOf(outcome)),
                                err |-> NilErr]

\* winPrivateKey.Close
KeyClose(n, wpk) ==
    LET n1 == IF wpk.cngHandle # 0
              THEN ReleaseKey(n, "NCryptFreeObject", wpk.cngHandle) ELSE n
    IN  IF wpk.capiProv # 0
        THEN ReleaseKey(n1, "CryptReleaseContext", wpk.capiProv) ELSE n1

-----------------------------------------------------------------------------
(* Signing *)

\* crypto.Hash values known to the Go runtime, and Hash.Size().
Hashes == {"MD5", "SHA1", "SHA224", "SHA256", "SHA384", "SHA512"}
HashSize(hash) ==
    CASE hash = "MD5"    -> 16
      [] hash = "SHA1"   -> 20
      [] hash = "SHA224" -> 28
      [] hash = "SHA256" -> 32
      [] hash = "SHA384" -> 48
      [] hash = "SHA512" -> 64
\* The hashes both signing paths map to a native algorithm identifier.
SupportedHashes == {"SHA1", "SHA256", "SHA384", "SHA512"}

\* The native call of a signing attempt that fails ("none": all succeed).
SignSteps == {"none", "create", "getsize", "setval", "siglen", "sign"}

\* Faulty variant: the signature returned in the order CryptSignHash wrote it.
reverseNothing(sig, j) == sig

\* The in-place reversal loop at the end of capiSignHash:
\* for i := len(sig)/2 - 1; i >= 0; i-- { swap sig[i], sig[len(sig)-1-i] }
\* (indices here are 1-based: Go's i is j - 1).
RECURSIVE reverseLoop(_, _)
reverseLoop(sig, j) ==
    IF j < 1 THEN sig
    ELSE LET opp == Len(sig) + 1 - j
         IN  reverseLoop([sig EXCEPT ![j] = sig[opp], ![opp] = sig[j]], j - 1)

\* A native call that is given a key handle: a handle that is not live
\* has been released.
UseKey(n, h) == IF h \in n.liveKeys THEN n ELSE [n EXCEPT !.badKey = TRUE]

\* Faulty variant: capiSignHash without its deferred call.
deferNothing(n) == n

\* defer C.CryptDestroyHash(chash), run when capiSignHash returns
deferDestroyHash(n) == [Logged(n, "CryptDestroyHash") EXCEPT !.hashes = @ - 1]

\* winPrivateKey.capiSignHash after its digest length check.  plan holds
\* what the native calls answer: the call that fails, the size the hash
\* object reports, and the signature bytes CryptSignHash writes.
capiSignChecked(n, wpk, hash, digestLen, plan) ==
    IF hash \notin SupportedHashes
    THEN [n |-> n, sig |-> <<>>, err |-> New("unsupported hash algorithm")]
    ELSE LET n1 == UseKey(Logged(n, "CryptCreateHash"), wpk.capiProv)
         IN  IF plan.fail = "create"
             THEN LET n2 == [n1 EXCEPT !.lastErr = "E_ACCESSDENIED"]
                  IN  [n |-> n2, sig |-> <<>>, err |-> lastError(n2, "failed to create hash")]
             ELSE LET made == [n1 EXCEPT !.hashes = @ + 1]
                      done(m) == deferDestroyHash(m)
                      n3 == Logged(made, "CryptGetHashParam")
                  IN  IF plan.fail = "getsize"
                      THEN LET n4 == [n3 EXCEPT !.lastErr = "E_ACCESSDENIED"]
                           IN  [n |-> done(n4), sig |-> <<>>,
                                err |-> lastError(n4, "failed to get hash size")]
                      ELSE IF HashSize(hash) # plan.hashSize
                      THEN [n |-> done(n3), sig |-> <<>>, err |-> New("invalid CryptoAPI hash")]
                      ELSE LET n5 == Logged(n3, "CryptSetHashParam")
                           IN  IF plan.fail = "setval"
                               THEN LET n6 == [n5 EXCEPT !.lastErr = "E_ACCESSDENIED"]
                                    IN  [n |-> done(n6), sig |-> <<>>,
                                         err |-> lastError(n6, "failed to set hash digest")]
                               ELSE LET n7 == Logged(n5, "CryptSignHash")
                                    IN  IF plan.fail = "siglen"
                                        THEN LET n8 == [n7 EXCEPT !.lastErr = "E_ACCESSDENIED"]
                                             IN  [n |-> done(n8), sig |-> <<>>,
                                                  err |-> lastError(n8, "failed to get signature length")]
                                        ELSE LET n9 == Logged(n7, "CryptSignHash")
                                             IN  IF plan.fail = "sign"
                                                 THEN LET n10 == [n9 EXCEPT !.lastErr = "E_ACCESSDENIED"]
                                                      IN  [n |-> done(n10), sig |-> <<>>,
                                                           err |-> lastError(n10, "failed to sign digest")]
                                                 ELSE [n |-> done(n9),
                                                       sig |-> reverseLoop(plan.sig, Len(plan.sig) \div 2),
                                                       err |-> NilErr]

\* Faulty variant: capiSignHash without its digest length check.
capiSignHashNoCheck(n, wpk, hash, digestLen, plan) ==
    capiSignChecked(n, wpk, hash, digestLen, plan)

\* winPrivateKey.capiSignHash; digestLen is len(digest).
capiSignHash(n, wpk, hash, digestLen, plan) ==
    IF digestLen # HashSize(hash)
    THEN [n |-> n, sig |-> <<>>, err |-> New("bad digest for hash")]
    ELSE capiSignChecked(n, wpk, hash, digestLen, plan)

\* Faulty variant: the bytes read as a little-endian number.
RECURSIVE SetBytesLittle(_)
SetBytesLittle(b) ==
    IF b = <<>> THEN 0 ELSE b[1] + 256 * SetBytesLittle(Tail(b))

\* new(big.Int).SetBytes: the big-endian unsigned value of the bytes.
RECURSIVE SetBytes(_)
SetBytes(b) ==
    IF b = <<>> THEN 0
    ELSE 256 * SetBytes(SubSeq(b, 1, Len(b) - 1)) + b[Len(b)]

\* The big-endian bytes of a positive number, without leading zeros.
RECURSIVE Bytes(_)
Bytes(v) == IF v = 0 THEN <<>> ELSE Append(Bytes(v \div 256), v % 256)

\* asn1.Marshal of a non-negative INTEGER: tag 2, length, minimal
\* two's-complement content (a leading 0 when the top bit is set).
derInteger(v) ==
    LET b == Bytes(v)
        content == IF b = <<>> THEN <<0>>
                   ELSE IF b[1] >= 128 THEN <<0>> \o b
                   ELSE b
    IN  <<2, Len(content)>> \o content

\* asn1.Marshal(ecdsaSignature{r, s}): SEQUENCE { INTEGER r, INTEGER s }.
asn1Marshal(r, s) ==
    LET body == derInteger(r) \o derInteger(s)
    IN  <<48, Len(body)>> \o body

\* winPrivateKey.cngSignHash; of SignSteps only "siglen" and "sign" name
\* calls of this path.
cngSignHash(n, wpk, hash, digestLen, plan) ==
    IF digestLen # HashSize(hash)
    THEN [n |-> n, sig |-> <<>>, err |-> New("bad digest for hash")]
    ELSE IF wpk.publicKey = "rsa" /\ hash \notin SupportedHashes
    THEN [n |-> n, sig |-> <<>>, err |-> New("unsupported hash algorithm")]
    ELSE LET n1 == UseKey(Logged(n, "NCryptSignHash"), wpk.cngHandle)
         IN  IF plan.fail = "siglen"
             THEN [n |-> n1, sig |-> <<>>,
                   err |-> Wrap(securityStatus("NTE_FAIL"), "failed to get signature length")]
             ELSE LET n2 == Logged(n1, "NCryptSignHash")
                  IN  IF plan.fail = "sign"
                      THEN [n |-> n2, sig |-> <<>>,
                            err |-> Wrap(securityStatus("NTE_FAIL"), "failed to sign digest")]
                      ELSE IF wpk.publicKey = "ec"
                      THEN IF Len(plan.sig) % 2 # 0
                           THEN [n |-> n2, sig |-> <<>>,
                                 err |-> New("bad ecdsa signature from CNG")]
                           ELSE LET half == Len(plan.sig) \div 2
                                    r == SetBytes(SubSeq(plan.sig, 1, half))
                                    s == SetBytes(SubSeq(plan.sig, half + 1, Len(plan.sig)))
                                IN  [n |-> n2, sig |-> asn1Marshal(r, s), err |-> NilErr]
                      ELSE [n |-> n2, sig |-> plan.sig, err |-> NilErr]

\* winPrivateKey.Sign
Sign(n, wpk, hash, digestLen, plan) ==
    IF wpk.capiProv # 0 THEN capiSignHash(n, wpk, hash, digestLen, plan)
    ELSE IF wpk.cngHandle # 0 THEN cngSignHash(n, wpk, hash, digestLen, plan)
    ELSE [n |-> n, sig |-> <<>>, err |-> New("bad private key")]

-----------------------------------------------------------------------------
(* winIdentity *)

ErrNilCtx == New("nil certificate context")
ErrIdentClosed == New("identity closed")

\* Faulty variant: an identity that borrows the caller's reference.
newWinIdentityBorrows(n, ctx) ==
    [n |-> n,
     id |-> [ctx |-> ctx, signer |-> NilKey, closed |-> FALSE,
             calls |-> 0, acqs |-> 0, held |-> FALSE]]

\* newWinIdentity.  Three fields are history, not fields of the Go struct:
\* calls counts the Close() calls made on the identity, acqs the private
\* keys newWinPrivateKey acquired for it, and held tells that the identity
\* was returned to the caller of the enumeration or import that made it.
newWinIdentity(n, ctx) ==
    [n |-> DupCtx(n, ctx),
     id |-> [ctx |-> ctx, signer |-> NilKey, closed |-> FALSE,
             calls |-> 0, acqs |-> 0, held |-> FALSE]]

\* winIdentity._check
IdentCheck(i) ==
    IF i.ctx = NilCtx THEN ErrNilCtx
    ELSE IF i.closed THEN ErrIdentClosed
    ELSE NilErr

\* Reading memory of a certificate context nobody holds a reference to.
UseCtx(n, ctx) == IF n.refs[ctx] = 0 THEN [n EXCEPT !.badUse = TRUE] ELSE n

\* winIdentity.GetCertificate: the certificate's public key on success.
GetCertificate(n, i) ==
    LET chk == IdentCheck(i)
    IN  IF chk # NilErr THEN [n |-> n, pub |-> "nil", err |-> chk]
        ELSE IF i.ctx[2] \in n.malformed
        THEN [n |-> UseCtx(n, i.ctx), pub |-> "nil",
              err |-> Wrap(New("x509: malformed certificate"), "certificate parsing failed")]
        ELSE [n |-> UseCtx(n, i.ctx), pub |-> PubOf(i.ctx[2]), err |-> NilErr]

\* winIdentity.getPrivateKey when no key is cached: parse the certificate,
\* acquire its key, cache it.
loadPrivateKey(n, i, outcome) ==
    LET c == GetCertificate(n, i)
    IN  IF c.err # NilErr
        THEN [n |-> c.n, id |-> i, key |-> NilKey,
              err |-> Wrap(c.err, "failed to get identity certificate")]
        ELSE LET k == newWinPrivateKey(c.n, i.ctx, c.pub, outcome)
             IN  IF k.err # NilErr
                 THEN [n |-> k.n, id |-> i, key |-> NilKey,
                       err |-> Wrap(k.err, "failed to load identity private key")]
                 ELSE [n |-> k.n,
                       id |-> [i EXCEPT !.signer = k.key, !.acqs = @ + 1],
                       key |-> k.key, err |-> NilErr]

\* Faulty variant: getPrivateKey without its cache.
getPrivateKeyNoCache(n, i, outcome) ==
    IF IdentCheck(i) # NilErr
    THEN [n |-> n, id |-> i, key |-> NilKey, err |-> IdentCheck(i)]
    ELSE loadPrivateKey(n, i, outcome)

\* winIdentity.getPrivateKey (GetSigner returns what it returns)
getPrivateKey(n, i, outcome) ==
    LET chk == IdentCheck(i)
    IN  IF chk # NilErr THEN [n |-> n, id |-> i, key |-> NilKey, err |-> chk]
        ELSE IF i.signer # NilKey
        THEN [n |-> n, id |-> i, key |-> i.signer, err |-> NilErr]
        ELSE loadPrivateKey(n, i, outcome)

\* winIdentity.Close
IdentClose(n, i) ==
    LET j == [i EXCEPT !.calls = @ + 1]
    IN  IF IdentCheck(i) # NilErr THEN [n |-> n, id |-> j]
        ELSE LET n1 == IF i.signer # NilKey THEN KeyClose(n, i.signer) ELSE n
             IN  [n |-> FreeCtx(n1, i.ctx), id |-> j]

\* Faulty variant: the cleanup loop left out.
CloseNone(n, idents, k) == [n |-> n, idents |-> idents]

\* for _, ident := range idents { ident.Close() }
RECURSIVE CloseAll(_, _, _)
CloseAll(n, idents, k) ==
    IF k > Len(idents) THEN [n |-> n, idents |-> idents]
    ELSE LET r == IdentClose(n, idents[k])
         IN  CloseAll(r.n, [idents EXCEPT ![k] = r.id], k + 1)

\* winPrivateKey.Delete.  step names the native call that fails: "delete"
\* (NCryptDeleteKey, or CryptAcquireContext with CRYPT_DELETEKEYSET), or one
\* of the three provider parameters read on the CryptoAPI path; "ok": none.
DeleteSteps == {"ok", "container", "name", "provtype", "delete"}

\* winPrivateKey.getProviderParam: the size query, then the read.
getProviderParam(n, ok) ==
    LET n1 == Logged(n, "CryptGetProvParam")
    IN  IF ok
        THEN [n |-> Logged(n1, "CryptGetProvParam"), err |-> NilErr]
        ELSE LET n2 == [n1 EXCEPT !.lastErr = "E_ACCESSDENIED"]
             IN  [n |-> n2, err |-> lastError(n2, "failed to get provider parameter size")]

\* The CryptoAPI branch of winPrivateKey.Delete.
capiDelete(n, wpk, step) ==
    LET c == getProviderParam(n, step # "container")
    IN  IF c.err # NilErr
        THEN [n |-> c.n, err |-> Wrap(c.err, "failed to get PP_CONTAINER")]
        ELSE LET p == getProviderParam(c.n, step # "name")
             IN  IF p.err # NilErr
                 THEN [n |-> p.n, err |-> Wrap(p.err, "failed to get PP_NAME")]
                 ELSE LET y == getProviderParam(p.n, step # "provtype")
                      IN  IF y.err # NilErr
                          THEN [n |-> y.n, err |-> Wrap(y.err, "failed to get PP_PROVTYPE")]
                          ELSE LET n2 == Logged(y.n, "CryptAcquireContext")
                               IN  IF step = "delete"
                                   THEN LET n3 == [n2 EXCEPT !.lastErr = "E_ACCESSDENIED"]
                                        IN  [n |-> n3,
                                             err |-> lastError(n3, "failed to delete key set")]
                                   ELSE [n |-> [n2 EXCEPT !.deletedKeys = @ \cup {wpk.capiProv}],
                                         err |-> NilErr]

\* winPrivateKey.Delete.  NCryptDeleteKey releases the handle it is given
\* when it succeeds.
KeyDelete(n, wpk, step) ==
    IF wpk.cngHandle # 0
    THEN LET n1 == Logged(n, "NCryptDeleteKey")
         IN  IF step = "delete"
             THEN [n |-> n1, err |-> securityStatus("NTE_FAIL")]
             ELSE [n |-> [n1 EXCEPT !.deletedKeys = @ \cup {wpk.cngHandle},
                                    !.liveKeys = @ \ {wpk.cngHandle},
                                    !.freedKeys = @ \cup {wpk.cngHandle}],
                   err |-> NilErr]
    ELSE IF wpk.capiProv # 0
    THEN capiDelete(n, wpk, step)
    ELSE [n |-> n, err |-> New("bad private key")]

\* CertDeleteCertificateFromStore: always releases the context it is given.
CertDeleteCertificateFromStore(n, ctx, ok) ==
    LET n1 == ConsumePrev(Logged(n, "CertDeleteCertificateFromStore"), ctx)
    IN  IF ok
        THEN [n1 EXCEPT !.sys = SelectSeq(@, LAMBDA c : c # ctx[2])]
        ELSE [n1 EXCEPT !.lastErr = "E_ACCESSDENIED"]

\* Faulty variant: the end of Destroy dropping the key it used.
destroyKeyClears(g, step) ==
    IF g.err # NilErr
    THEN [n |-> g.n, id |-> g.id, key |-> NilKey,
          err |-> Wrap(g.err, "failed to get identity private key")]
    ELSE [n |-> KeyDelete(g.n, g.key, step).n,
          id |-> [g.id EXCEPT !.signer = NilKey], key |-> g.key,
          err |-> IF KeyDelete(g.n, g.key, step).err # NilErr
                  THEN Wrap(KeyDelete(g.n, g.key, step).err,
                            "failed to delete identity private key")
                  ELSE NilErr]

\* The end of Destroy, given what getPrivateKey returned (g).
destroyKey(g, step) ==
    IF g.err # NilErr
    THEN [n |-> g.n, id |-> g.id, key |-> NilKey,
          err |-> Wrap(g.err, "failed to get identity private key")]
    ELSE LET d == KeyDelete(g.n, g.key, step)
         IN  [n |-> d.n, id |-> g.id, key |-> g.key,
              err |-> IF d.err # NilErr
                      THEN Wrap(d.err, "failed to delete identity private key")
                      ELSE NilErr]

\* Faulty variant: Destroy that goes on to the key when the certificate
\* could not be deleted.
DestroyKeepsGoing(n, i, certOk, outcome, step) ==
    destroyKey(getPrivateKey(
                   CertDeleteCertificateFromStore(DupCtx(UseCtx(n, i.ctx), i.ctx),
                                                  i.ctx, certOk),
                   i, outcome),
               step)

\* winIdentity.Destroy
Destroy(n, i, certOk, outcome, step) ==
    LET n1 == DupCtx(UseCtx(n, i.ctx), i.ctx)
        n2 == CertDeleteCertificateFromStore(n1, i.ctx, certOk)
    IN  IF ~certOk
        THEN [n |-> n2, id |-> i, key |-> NilKey,
              err |-> lastError(n2, "failed to delete certificate from store")]
        ELSE destroyKey(getPrivateKey(n2, i, outcome), step)

-----------------------------------------------------------------------------
(* Enumeration and import *)

\* CertOpenStore / PFXImportCertStore: a store handle on success.  fault is
\* the number of the entry of the store that cannot be read (0: none).
OpenStore(n, call, h, ok, fault) ==
    LET m == Logged(n, call)
    IN  IF ok
        THEN [m EXCEPT !.hs[h] = "open", !.fault[h] = fault]
        ELSE [m EXCEPT !.lastErr = "E_ACCESSDENIED"]

\* The loop of findIdentities: for ctx := store.nextCert(); ctx != nil; ...
RECURSIVE findLoop(_, _, _)
\* Its body, given what nextCert() returned (r).
findBody(r, idents) ==
    IF r.ret = NilCtx THEN [n |-> r.n, s |-> r.s, idents |-> idents]
    ELSE LET w == newWinIdentity(r.n, r.ret)
         IN  findLoop(w.n, r.s, Append(idents, w.id))

findLoop(n, s, idents) == findBody(nextCert(n, s), idents)

\* findIdentities, and what it does once its loop has ended (l).  made:
\* every identity constructed, as the call left it; idents: the identities
\* returned.
findDone(l) ==
    LET err == getError(l.s)
    IN  IF err # NilErr
        THEN LET c == CloseAll(l.n, l.idents, 1)
             IN  [n |-> c.n, s |-> l.s, made |-> c.idents, idents |-> <<>>,
                  err |-> Wrap(err, "identity iteration failed")]
        ELSE [n |-> l.n, s |-> l.s, made |-> l.idents, idents |-> l.idents,
              err |-> NilErr]

findIdentities(n, s) == findDone(findLoop(n, s, <<>>))

\* Faulty variant: a return that closes the store on success only.
findReturnLeaky(f) ==
    IF f.err # NilErr
    THEN [n |-> f.n, made |-> f.made, idents |-> <<>>,
          err |-> Wrap(f.err, "findIdentities failed")]
    ELSE [n |-> StoreClose(f.n, f.s).n, made |-> f.made,
          idents |-> f.idents, err |-> NilErr]

\* The return of FindIdentities, given what findIdentities returned (f):
\* the deferred store.Close() runs on both paths.
findReturn(f) ==
    [n |-> StoreClose(f.n, f.s).n, made |-> f.made, idents |-> f.idents,
     err |-> IF f.err # NilErr THEN Wrap(f.err, "findIdentities failed") ELSE NilErr]

\* FindIdentities
FindIdentities(n, openOk, fault) ==
    LET n1 == OpenStore(n, "CertOpenStore", "FIND", openOk, fault)
    IN  IF ~openOk
        THEN [n |-> n1, made |-> <<>>, idents |-> <<>>,
              err |-> Wrap(lastError(n1, "failed to open system cert store"),
                           "openMyCertStore failed")]
        ELSE findReturn(findIdentities(n1, NewStore("FIND")))

\* CertAddEncodedCertificateToStore(h, ..., CERT_STORE_ADD_REPLACE_EXISTING,
\* &newCtx): the certificate enters the system store (an entry that is
\* already there is replaced) and newCtx holds a reference to it.
CertAddEncodedCertificateToStore(n, h, cert, ok) ==
    LET m == UseStore(Logged(n, "CertAddEncodedCertificateToStore"), h)
    IN  IF ok
        THEN [n |-> [m EXCEPT !.sys = IF Contains(@, cert) THEN @ ELSE Append(@, cert),
                              !.refs[<<h, cert>>] = @ + 1],
              ret |-> <<h, cert>>]
        ELSE [n |-> [m EXCEPT !.lastErr = "E_ACCESSDENIED"], ret |-> NilCtx]

\* The copy loop of importPFX; addFailAt numbers the insertion that fails.
RECURSIVE importLoop(_, _, _, _, _)
\* Its body, given what wstore.nextCert() returned (r).
importBody(r, s, idents, addFailAt) ==
    IF r.ret = NilCtx
    THEN [n |-> r.n, wstore |-> r.s, idents |-> idents, addFailed |-> FALSE]
    ELSE LET a == CertAddEncodedCertificateToStore(
                      r.n, s.store, r.ret[2], Len(idents) + 1 # addFailAt)
         IN  IF a.ret = NilCtx
             THEN [n |-> a.n, wstore |-> r.s, idents |-> idents, addFailed |-> TRUE]
             ELSE LET w == newWinIdentity(a.n, a.ret)
                  IN  importLoop(w.n, s, r.s, Append(idents, w.id), addFailAt)

importLoop(n, s, wstore, idents, addFailAt) ==
    importBody(nextCert(n, wstore), s, idents, addFailAt)

\* The return of importPFX, given how its loop ended (l); the deferred
\* wstore.Close() runs on every path.
importReturn(l) ==
    IF l.addFailed
    THEN LET c == CloseAll(l.n, l.idents, 1)
             e == lastError(c.n, "failed to add imported certificate to MY store")
         IN  [n |-> StoreClose(c.n, l.wstore).n, made |-> c.idents,
              idents |-> <<>>, err |-> e]
    ELSE IF getError(l.wstore) # NilErr
    THEN LET c == CloseAll(l.n, l.idents, 1)
         IN  [n |-> StoreClose(c.n, l.wstore).n, made |-> c.idents,
              idents |-> <<>>, err |-> getError(l.wstore)]
    ELSE [n |-> StoreClose(l.n, l.wstore).n, made |-> l.idents,
          idents |-> l.idents, err |-> NilErr]

\* winStore.importPFX.  parseOk: PFXImportCertStore accepts the bundle and
\* its password; pfx: the certificates of the bundle.
importPFX(n, s, parseOk, pfx, fault, addFailAt) ==
    LET n1 == OpenStore(n, "PFXImportCertStore", "PFX", parseOk, fault)
    IN  IF ~parseOk
        THEN [n |-> n1, made |-> <<>>, idents |-> <<>>,
              err |-> lastError(n1, "failed to import PFX cert store")]
        ELSE importReturn(importLoop([n1 EXCEPT !.pfx = pfx], s, NewStore("PFX"),
                                     <<>>, addFailAt))

-----------------------------------------------------------------------------
(* The state machine *)

\* The native layer before any call: no handle, no reference, no key.
\* refs counts the references the program holds to each certificate
\* context; badFree, badUse, badStore and badKey record a release without a
\* reference, a read of a released context, a call on a store handle that
\* is not open, and a release or use of a key handle that is not live.
\* log lists the native calls of the operation in progress.
Native0 ==
    [hs |-> [h \in Handles |-> "none"], sys |-> <<>>, pfx |-> <<>>,
     fault |-> [h \in Handles |-> 0], faultCode |-> "E_ACCESSDENIED",
     refs |-> [c \in Ctxs |-> 0], malformed |-> {},
     badFree |-> FALSE, badUse |-> FALSE, badStore |-> FALSE, badKey |-> FALSE,
     lastErr |-> "", log |-> <<>>,
     nextKey |-> 1, liveKeys |-> {}, freedKeys |-> {}, deletedKeys |-> {},
     hashes |-> 0]

Begin(n) == [n EXCEPT !.log = <<>>]

NoInput == [hash |-> "", digestLen |-> 0, fail |-> "", hashSize |-> 0, sig |-> <<>>]

\* What an operation leaves in last: its name, the identity it ran on (0:
\* none), the error, certificate context, key and signature it returned,
\* whether its receiver had been closed before (wasClosed) and held a key
\* before (hadKey), the identities it constructed and returned (indices of
\* heap), and its inputs.
Ran(op, id, err) ==
    [op |-> op, id |-> id, err |-> err, ctx |-> NilCtx, key |-> NilKey,
     sig |-> <<>>, wasClosed |-> FALSE, hadKey |-> NilKey,
     made |-> {}, idents |-> {}, in |-> NoInput]

\* The indices the identities of made get when appended to heap.
Fresh(made) == Len(heap) + 1 .. Len(heap) + Len(made)

\* The identities an enumeration or import made, marked as returned to the
\* caller when it returned them.
Handed(r) == [k \in 1 .. Len(r.made) |-> [r.made[k] EXCEPT !.held = r.idents # <<>>]]

Iter0 == [produced |-> <<>>, afterReset |-> FALSE]

\* openMyCertStore succeeded: st is a winStore on the system store, whose
\* content and unreadable entry (0: none) are the environment's.
InitOpenStore(content, fault, malformed) ==
    /\ nat = [Native0 EXCEPT !.hs["MY"] = "open", !.sys = content,
                             !.fault["MY"] = fault, !.malformed = malformed]
    /\ st = NewStore("MY")
    /\ heap = <<>>
    /\ last = Ran("open", 0, NilErr)
    /\ iter = Iter0
    /\ pk = NilKey

InitStore ==
    \E content \in InjSeqs(1 .. MaxCerts, MaxCerts) :
        \E fault \in 0 .. Len(content) + 1 :
            InitOpenStore(content, fault, {})

\* The system store holds certificates 1 .. k.
StoreContents == {[i \in 1 .. k |-> i] : k \in 0 .. MaxCerts}

\* A PFX bundle: a certificate the system store does not hold yet, then
\* certificates it may hold already.
Bundle(k) == [i \in 1 .. k |-> IF i = 1 THEN MaxCerts + 1 ELSE i - 1]
PfxBundles == {Bundle(k) : k \in 0 .. MaxPfx}

InitImport ==
    \E content \in StoreContents :
        \E fault \in 0 .. Len(content) + 1 :
            InitOpenStore(content, fault, {})

InitEnum == \E content \in StoreContents : InitOpenStore(content, 0, {})

\* FindIdentities returned the identities of a system store that holds
\* certificates 1 .. k; certificate 1 may be one x509 cannot parse.
InitIdent ==
    \E k \in 1 .. MaxHeld, malformed \in {{}, {1}} :
        \E r \in {FindIdentities([Native0 EXCEPT !.sys = [i \in 1 .. k |-> i],
                                                  !.malformed = malformed],
                                  TRUE, 0)} :
            /\ nat = r.n
            /\ st = NewStore(NilHandle)
            /\ heap = Handed(r)
            /\ last = [Ran("FindIdentities", 0, r.err) EXCEPT
                          !.made = 1 .. Len(r.made), !.idents = 1 .. Len(r.idents)]
            /\ iter = Iter0
            /\ pk = NilKey

\* st.nextCert()
NextCert ==
    \E r \in {nextCert(Begin(nat), st)} :
        /\ nat' = r.n
        /\ st' = r.s
        /\ last' = [Ran("nextCert", 0, NilErr) EXCEPT !.ctx = r.ret,
                                                      !.wasClosed = st.closed]
        /\ iter' = IF r.ret = NilCtx THEN iter
                   ELSE [iter EXCEPT !.produced = Append(@, r.ret[2])]
        /\ UNCHANGED <<heap, pk>>

\* st.getError()
GetError ==
    /\ nat' = Begin(nat)
    /\ last' = [Ran("getError", 0, getError(st)) EXCEPT !.wasClosed = st.closed]
    /\ UNCHANGED <<st, heap, iter, pk>>

\* st.reset()
Reset ==
    \E r \in {reset(Begin(nat), st)} :
        /\ nat' = r.n
        /\ st' = r.s
        /\ last' = [Ran("reset", 0, r.err) EXCEPT !.wasClosed = st.closed]
        /\ iter' = IF r.err # NilErr THEN iter
                   ELSE [produced |-> <<>>, afterReset |-> TRUE]
        /\ UNCHANGED <<heap, pk>>

\* st.Close()
CloseStore ==
    \E r \in {StoreClose(Begin(nat), st)} :
        /\ nat' = r.n
        /\ st' = r.s
        /\ last' = [Ran("Close", 0, NilErr) EXCEPT !.wasClosed = st.closed]
        /\ UNCHANGED <<heap, iter, pk>>

\* st.importPFX(data, password)
ImportPFX ==
    \E parseOk \in BOOLEAN, pfx \in PfxBundles :
        \E fault \in 0 .. Len(pfx) + 1, addFailAt \in 0 .. Len(pfx) :
            /\ Len(heap) + Len(pfx) <= MaxIdents
            /\ \E r \in {importPFX(Begin(nat), st, parseOk, pfx, fault, addFailAt)} :
                   /\ nat' = r.n
                   /\ heap' = heap \o Handed(r)
                   /\ last' = [Ran("importPFX", 0, r.err) EXCEPT
                                  !.wasClosed = st.closed,
                                  !.made = Fresh(r.made),
                                  !.idents = IF r.idents = <<>> THEN {}
                                             ELSE Fresh(r.made)]
            /\ UNCHANGED <<st, iter, pk>>

\* FindIdentities()
DoFindIdentities ==
    \E openOk \in BOOLEAN, fault \in 0 .. Len(nat.sys) + 1 :
        /\ Len(heap) + Len(nat.sys) <= MaxIdents
        /\ \E r \in {FindIdentities(Begin(nat), openOk, fault)} :
               /\ nat' = r.n
               /\ heap' = heap \o Handed(r)
               /\ last' = [Ran("FindIdentities", 0, r.err) EXCEPT
                              !.made = Fresh(r.made),
                              !.idents = IF r.idents = <<>> THEN {}
                                         ELSE Fresh(r.made)]
        /\ UNCHANGED <<st, iter, pk>>

\* heap[i].GetCertificate()
DoGetCertificate(i) ==
    /\ heap[i].held
    /\ \E r \in {GetCertificate(Begin(nat), heap[i])} :
           /\ nat' = r.n
           /\ last' = [Ran("GetCertificate", i, r.err) EXCEPT
                          !.wasClosed = heap[i].calls > 0]
    /\ UNCHANGED <<st, heap, iter, pk>>

\* heap[i].GetSigner()
DoGetSigner(i) ==
    \E outcome \in KeyOutcomes :
        /\ heap[i].held
        /\ \E r \in {getPrivateKey(Begin(nat), heap[i], outcome)} :
               /\ nat' = r.n
               /\ heap' = [heap EXCEPT ![i] = r.id]
               /\ last' = [Ran("GetSigner", i, r.err) EXCEPT
                              !.key = r.key,
                              !.wasClosed = heap[i].calls > 0,
                              !.hadKey = heap[i].signer]
        /\ UNCHANGED <<st, iter, pk>>

\* What the native calls of a Destroy answer: the certificate cannot be
\* deleted, or it can and no key is acquired, or a key is acquired and
\* its deletion fails at some step or at none.
DestroyPlans ==
    [certOk : {FALSE}, outcome : {"nofind"}, step : {"ok"}]
    \cup [certOk : {TRUE}, outcome : {"nofind", "noacquire", "cached"}, step : {"ok"}]
    \cup [certOk : {TRUE}, outcome : {"cng", "capi"}, step : DeleteSteps]

\* heap[i].Destroy()
DoDestroy(i) ==
    \E plan \in DestroyPlans :
        /\ heap[i].held
        /\ \E r \in {Destroy(Begin(nat), heap[i], plan.certOk, plan.outcome, plan.step)} :
               /\ nat' = r.n
               /\ heap' = [heap EXCEPT ![i] = r.id]
               /\ last' = [Ran("Destroy", i, r.err) EXCEPT
                              !.key = r.key,
                              !.wasClosed = heap[i].calls > 0,
                              !.hadKey = heap[i].signer]
        /\ UNCHANGED <<st, iter, pk>>

\* heap[i].Close()
DoIdentClose(i) ==
    /\ heap[i].held
    /\ heap[i].calls < MaxCloses
    /\ \E r \in {IdentClose(Begin(nat), heap[i])} :
           /\ nat' = r.n
           /\ heap' = [heap EXCEPT ![i] = r.id]
           /\ last' = [Ran("IdentClose", i, NilErr) EXCEPT
                          !.wasClosed = heap[i].calls > 0]
    /\ UNCHANGED <<st, iter, pk>>

\* What the native calls of a signing attempt answer: one of them fails,
\* or none does and the hash object reports a size and the signing call
\* writes a signature.
Bytes8 == {0, 200}
Sigs == UNION {[1 .. k -> Bytes8] : k \in 1 .. MaxSig}
SignPlans(hash) ==
    [fail : SignSteps \ {"none"}, hashSize : {HashSize(hash)}, sig : {<<200>>}]
    \cup [fail : {"none"}, hashSize : {0}, sig : {<<200>>}]
    \cup [fail : {"none"}, hashSize : {HashSize(hash)}, sig : Sigs]

\* The inputs of a signing attempt: a digest of the length of its hash
\* with every answer of the native calls, or a digest of another length
\* (an empty one, or one of 20 bytes).
SignInputs ==
    UNION {{[hash |-> h, digestLen |-> HashSize(h), plan |-> p] : p \in SignPlans(h)} :
           h \in Hashes}
    \cup {in \in {[hash |-> h, digestLen |-> d,
                    plan |-> [fail |-> f, hashSize |-> HashSize(h), sig |-> <<0, 200>>]] :
                    h \in Hashes, d \in {0, 20}, f \in {"none", "create"}} :
             in.digestLen # HashSize(in.hash)}

\* The signer GetSigner returned for heap[i] signs a digest.
DoIdentSign(i) ==
    /\ heap[i].held
    /\ heap[i].signer # NilKey
    /\ \E hash \in {"MD5", "SHA256"}, digestLen \in {16, 32}, fail \in SignSteps :
          \E plan \in {[fail |-> fail, hashSize |-> HashSize(hash), sig |-> <<1, 200>>]} :
              \E r \in {Sign(Begin(nat), heap[i].signer, hash, digestLen, plan)} :
                  /\ nat' = r.n
                  /\ last' = [Ran("Sign", i, r.err) EXCEPT
                                 !.sig = r.sig,
                                 !.in = [plan EXCEPT !.sig = <<>>] @@
                                        [hash |-> hash, digestLen |-> digestLen]]
    /\ UNCHANGED <<st, heap, iter, pk>>

\* newWinPrivateKey succeeded for a certificate with an RSA or an
\* elliptic-curve key: pk is its private key, on either backend.
InitSign ==
    \E cert \in {1, 2}, outcome \in {"cng", "capi"} :
        \E k \in {newWinPrivateKey(
                      [Native0 EXCEPT !.sys = <<1, 2>>, !.refs[<<"MY", cert>>] = 1],
                      <<"MY", cert>>, PubOf(cert), outcome)} :
            /\ nat = k.n
            /\ st = NewStore(NilHandle)
            /\ heap = <<>>
            /\ last = [Ran("newWinPrivateKey", 0, k.err) EXCEPT !.key = k.key]
            /\ iter = Iter0
            /\ pk = k.key

\* pk.Sign(rand, digest, opts)
DoSign ==
    \E in \in SignInputs :
        /\ \E r \in {Sign(Begin(nat), pk, in.hash, in.digestLen, in.plan)} :
               /\ nat' = r.n
               /\ last' = [Ran("Sign", 0, r.err) EXCEPT
                              !.sig = r.sig, !.key = pk,
                              !.in = in.plan @@ [hash |-> in.hash,
                                                 digestLen |-> in.digestLen]]
        /\ UNCHANGED <<st, heap, iter, pk>>

\* pk.Delete()
DoKeyDelete ==
    \E step \in DeleteSteps :
        \E r \in {KeyDelete(Begin(nat), pk, step)} :
            /\ nat' = r.n
            /\ last' = [Ran("Delete", 0, r.err) EXCEPT !.key = pk]
            /\ UNCHANGED <<st, heap, iter, pk>>

\* pk.Close()
DoKeyClose ==
    /\ nat' = KeyClose(Begin(nat), pk)
    /\ last' = [Ran("KeyClose", 0, NilErr) EXCEPT !.key = pk]
    /\ UNCHANGED <<st, heap, iter, pk>>

NextStore == NextCert \/ GetError \/ Reset \/ CloseStore

NextImport == NextStore \/ ImportPFX

NextEnum == DoFindIdentities \/ ImportPFX \/ CloseStore

\* A client's run: one enumeration or import, then signers and signatures,
\* and one Close of each identity it was handed and of the store.
NextRun ==
    \/ last.op = "open" /\ DoFindIdentities
    \/ last.op = "open" /\ ImportPFX
    \/ last.op # "open" /\ CloseStore
    \/ \E i \in 1 .. Len(heap) : heap[i].calls = 0 /\ DoGetSigner(i)
    \/ \E i \in 1 .. Len(heap) : heap[i].calls = 0 /\ DoIdentSign(i)
    \/ \E i \in 1 .. Len(heap) : heap[i].calls = 0 /\ DoIdentClose(i)

NextIdent ==
    \/ \E i \in 1 .. Len(heap) : DoGetCertificate(i)
    \/ \E i \in 1 .. Len(heap) : DoGetSigner(i)
    \/ \E i \in 1 .. Len(heap) : DoDestroy(i)
    \/ \E i \in 1 .. Len(heap) : DoIdentClose(i)

\* A winStore and its iteration.
SpecStore == InitStore /\ [][NextStore]_vars

\* A winStore, its iteration and imports into it.
SpecImport == InitImport /\ [][NextImport]_vars

\* Enumeration and import.
SpecEnum == InitEnum /\ [][NextEnum]_vars

\* Enumeration and import, signing with what they return, and closing it.
SpecRun == InitEnum /\ [][NextRun]_vars

\* A private key: signing with it, deleting it, closing it.
NextSign == DoSign \/ DoKeyDelete \/ DoKeyClose

SpecSign == InitSign /\ [][NextSign]_vars

\* The identities an enumeration returned, and their private keys.
SpecIdent == InitIdent /\ [][NextIdent]_vars

-----------------------------------------------------------------------------
(* The PKCS#11 store of certstore_linux.go *)

ErrLinuxNoU == New("No U!")

\* The certificate Identities looks up by its serial number.
SerialCert == 1

\* What a lookup on the token gives: the object, or an error.
LookupOutcomes == {"found", "error"}

\* The crypto11 context after Configure, in a running process, on a token
\* that holds the certificate and its key pair or lacks them; log lists the
\* context's methods the operation in progress called.
Token0(hasCert, hasKey) ==
    [closed |-> FALSE, aborted |-> FALSE, hasCert |-> hasCert, hasKey |-> hasKey,
     log |-> <<>>]

\* openStore, Configure having succeeded
linuxOpenStore == [ctx |-> "crypto11"]

\* crypto11 Context.FindCertificate(nil, nil, serial): a closed context
\* fails every call, and so does the lookup of an object the token lacks.
FindCertificate(n, outcome) ==
    IF ~n.closed /\ n.hasCert /\ outcome = "found"
    THEN [n |-> Logged(n, "FindCertificate"), cert |-> SerialCert, err |-> NilErr]
    ELSE [n |-> Logged(n, "FindCertificate"), cert |-> 0,
          err |-> New("FindCertificate failed")]

\* crypto11 Context.FindKeyPair(cert.SubjectKeyId, nil)
FindKeyPair(n, outcome) ==
    IF ~n.closed /\ n.hasKey /\ outcome = "found"
    THEN [n |-> Logged(n, "FindKeyPair"), signer |-> "signer", err |-> NilErr]
    ELSE [n |-> Logged(n, "FindKeyPair"), signer |-> "nil",
          err |-> New("FindKeyPair failed")]

\* panic(err): the process is aborted, nothing is returned.
panic(n) == [n |-> [n EXCEPT !.aborted = TRUE], idents |-> <<>>, err |-> NilErr]

\* linuxStore.Identities, from the certificate lookup on
identitiesKeyPair(c, k) ==
    IF k.err # NilErr THEN panic(k.n)
    ELSE [n |-> k.n, idents |-> <<[cert |-> c.cert, signer |-> k.signer]>>,
          err |-> NilErr]

identitiesCert(c, keyOutcome) ==
    IF c.err # NilErr THEN panic(c.n)
    ELSE identitiesKeyPair(c, FindKeyPair(c.n, keyOutcome))

\* linuxStore.Identities
linuxIdentities(n, store, certOutcome, keyOutcome) ==
    identitiesCert(FindCertificate(n, certOutcome), keyOutcome)

\* linuxStore.Import
linuxImport(n, store, data, password) ==
    [n |-> n, store |-> store, err |-> ErrLinuxNoU]

\* linuxStore.Close: store.ctx.Close()
linuxStoreClose(n, store) ==
    [n |-> [Logged(n, "Close") EXCEPT !.closed = TRUE], store |-> store]

\* linuxIdent.Certificate
linuxCertificate(ident) == [cert |-> ident.cert, err |-> NilErr]

\* linuxIdent.CertificateChain
linuxCertificateChain(ident) == [chain |-> <<ident.cert>>, err |-> NilErr]

\* Faulty variant: Delete that drops the identity's certificate and succeeds.
linuxDeleteDrops(n, ident) ==
    [n |-> n, ident |-> [ident EXCEPT !.cert = 0], err |-> NilErr]

\* linuxIdent.Delete
linuxDelete(n, ident) == [n |-> n, ident |-> ident, err |-> ErrLinuxNoU]

\* linuxIdent.Signer
linuxSigner(ident) == [signer |-> ident.signer, err |-> NilErr]

\* linuxIdent.Close
linuxIdentClose(n, ident) == [n |-> n, ident |-> ident]

\* openStore returned a store on the token.
InitLinux ==
    /\ \E hasCert \in BOOLEAN, hasKey \in BOOLEAN : nat = Token0(hasCert, hasKey)
    /\ st = linuxOpenStore
    /\ heap = <<>>
    /\ last = Ran("openStore", 0, NilErr)
    /\ iter = Iter0
    /\ pk = NilKey

\* The passwords a caller passes to Import.
Passwords == {"", "secret"}

\* st.Identities()
LinuxIdentities ==
    /\ ~nat.aborted
    /\ Len(heap) < MaxIdents
    /\ \E certOutcome \in LookupOutcomes, keyOutcome \in LookupOutcomes :
           \E r \in {linuxIdentities(Begin(nat), st, certOutcome, keyOutcome)} :
               /\ nat' = r.n
               /\ heap' = heap \o r.idents
               /\ last' = [Ran("linuxIdentities", 0, r.err) EXCEPT
                              !.made = Fresh(r.idents), !.idents = Fresh(r.idents),
                              !.in = [cert |-> certOutcome, key |-> keyOutcome]]
               /\ UNCHANGED <<st, iter, pk>>

\* st.Import(data, password)
LinuxImport ==
    /\ ~nat.aborted
    /\ \E data \in PfxBundles, password \in Passwords :
           \E r \in {linuxImport(Begin(nat), st, data, password)} :
               /\ nat' = r.n
               /\ st' = r.store
               /\ last' = [Ran("linuxImport", 0, r.err) EXCEPT
                              !.in = [data |-> data, password |-> password]]
               /\ UNCHANGED <<heap, iter, pk>>

\* st.Close()
LinuxClose ==
    /\ ~nat.aborted
    /\ \E r \in {linuxStoreClose(Begin(nat), st)} :
           /\ nat' = r.n
           /\ st' = r.store
           /\ last' = [Ran("linuxClose", 0, NilErr) EXCEPT !.wasClosed = nat.closed]
           /\ UNCHANGED <<heap, iter, pk>>

\* heap[i].Certificate()
LinuxCertificate(i) ==
    /\ ~nat.aborted
    /\ nat' = Begin(nat)
    /\ last' = [Ran("linuxCertificate", i, linuxCertificate(heap[i]).err) EXCEPT
                   !.ctx = <<"token", linuxCertificate(heap[i]).cert>>]
    /\ UNCHANGED <<st, heap, iter, pk>>

\* heap[i].CertificateChain()
LinuxCertificateChain(i) ==
    /\ ~nat.aborted
    /\ nat' = Begin(nat)
    /\ last' = [Ran("linuxCertificateChain", i, linuxCertificateChain(heap[i]).err) EXCEPT
                   !.sig = linuxCertificateChain(heap[i]).chain]
    /\ UNCHANGED <<st, heap, iter, pk>>

\* heap[i].Delete()
LinuxDelete(i) ==
    /\ ~nat.aborted
    /\ \E r \in {linuxDelete(Begin(nat), heap[i])} :
           /\ nat' = r.n
           /\ heap' = [heap EXCEPT ![i] = r.ident]
           /\ last' = Ran("linuxDelete", i, r.err)
           /\ UNCHANGED <<st, iter, pk>>

\* heap[i].Signer()
LinuxSigner(i) ==
    /\ ~nat.aborted
    /\ nat' = Begin(nat)
    /\ last' = [Ran("linuxSigner", i, linuxSigner(heap[i]).err) EXCEPT
                   !.in = [signer |-> linuxSigner(heap[i]).signer]]
    /\ UNCHANGED <<st, heap, iter, pk>>

\* heap[i].Close()
LinuxIdentClose(i) ==
    /\ ~nat.aborted
    /\ \E r \in {linuxIdentClose(Begin(nat), heap[i])} :
           /\ nat' = r.n
           /\ heap' = [heap EXCEPT ![i] = r.ident]
           /\ last' = Ran("linuxIdentClose", i, NilErr)
           /\ UNCHANGED <<st, iter, pk>>

NextLinux ==
    \/ LinuxIdentities
    \/ LinuxImport
    \/ LinuxClose
    \/ \E i \in 1 .. Len(heap) : LinuxCertificate(i)
    \/ \E i \in 1 .. Len(heap) : LinuxCertificateChain(i)
    \/ \E i \in 1 .. Len(heap) : LinuxDelete(i)
    \/ \E i \in 1 .. Len(heap) : LinuxSigner(i)
    \/ \E i \in 1 .. Len(heap) : LinuxIdentClose(i)

\* Callers of a PKCS#11 store and its identities.
SpecLinux == InitLinux /\ [][NextLinux]_vars

-----------------------------------------------------------------------------
(* Properties *)

\* How often a native call appears in the log of the last operation.
Count(log, call) == Cardinality({k \in 1 .. Len(log) : log[k] = call})

\* C1: once Close() has been called on a store, every later nextCert,
\* getError, reset, importPFX and Close fails with the invalid-state error
\* before anything else, and makes no native call with the released handle.
C1_ClosedStoreOpsFail ==
    (last.wasClosed /\ last.op \in {"nextCert", "getError", "reset", "importPFX", "Close"})
        => /\ nat.log = <<>>
           /\ ~nat.badStore
           /\ last.op = "nextCert" => last.ctx = NilCtx /\ st.err = ErrStoreClosed
           /\ last.op \in {"getError", "reset", "importPFX"} => last.err = ErrStoreClosed

\* C2: after one Close() of an identity, GetCertificate, GetSigner and
\* Destroy fail with the invalid-state error and a further Close() releases
\* nothing; no certificate reference is released twice.
C2_ClosedIsTerminal ==
    /\ (last.wasClosed /\ last.op \in {"GetCertificate", "GetSigner", "Destroy"})
           => last.err = ErrIdentClosed
    /\ (last.wasClosed /\ last.op = "IdentClose") => nat.log = <<>>
    /\ ~nat.badFree

\* C3: when findIdentities ends with a genuine error, each identity it had
\* wrapped has had Close() called and is observably closed (its _check
\* fails), and the call returns the error and no identity; identities are
\* returned only after benign exhaustion.
C3_FailedEnumerationClosesAll ==
    last.op = "FindIdentities"
        => /\ last.err # NilErr
                  => /\ last.idents = {}
                     /\ \A i \in last.made :
                            heap[i].calls = 1 /\ IdentCheck(heap[i]) # NilErr
           /\ last.idents # {} => last.err = NilErr /\ nat.fault["FIND"] = 0

\* The client's run is over: an enumeration or import ran, the store is
\* closed, and every identity has had Close() called once.
RunOver ==
    /\ last.op # "open"
    /\ st.closed
    /\ \A i \in 1 .. Len(heap) : heap[i].calls = 1

\* C4: when a run of FindIdentities or importPFX, GetSigner and Sign calls,
\* and one Close of every identity and of the store is over, every store
\* handle, certificate reference, key handle and hash object acquired has
\* been released exactly once.
C4_HandlesReleasedOnce ==
    /\ nat.hashes = 0
    /\ RunOver => /\ \A c \in Ctxs : nat.refs[c] = 0
                  /\ nat.liveKeys = {}
                  /\ \A h \in Handles : nat.hs[h] # "open"
                  /\ ~nat.badFree /\ ~nat.badKey /\ ~nat.badStore

\* The store FindIdentities or importPFX opens for itself was not opened.
OpenFailed ==
    last.err # NilErr
    /\ last.err.msgs[1] \in {"openMyCertStore failed", "failed to import PFX cert store"}

\* C5: the store FindIdentities opens and the transient store importPFX
\* opens are closed when the operation returns, whatever it returns.
C5_InnerStoreClosed ==
    /\ nat.hs["FIND"] # "open"
    /\ nat.hs["PFX"] # "open"
    /\ (last.op = "FindIdentities" /\ ~OpenFailed)
           => nat.hs["FIND"] = "closed" /\ Count(nat.log, "CertCloseStore") = 1
    /\ (last.op = "importPFX" /\ ~OpenFailed)
           => nat.hs["PFX"] = "closed" /\ Count(nat.log, "CertCloseStore") = 1

\* Witness of C5: an import whose second insertion failed.
C5_Witness ==
    /\ last.op = "importPFX"
    /\ last.err # NilErr
    /\ last.err.msgs[1] = "failed to add imported certificate to MY store"
    /\ last.made # {}
    /\ nat.hs["PFX"] = "closed"

RECURSIVE iterate(_, _, _)
iterate(n, s, out) ==
    LET r == nextCert(n, s)
    IN  IF r.ret = NilCtx THEN out
        ELSE iterate(r.n, r.s, Append(out, r.ret[2]))

FreshIteration == iterate(nat, NewStore("MY"), <<>>)

IsPrefix(p, q) == Len(p) <= Len(q) /\ SubSeq(q, 1, Len(p)) = p

\* C7: reset() leaves the cursor empty and the recorded error cleared, and
\* the entries nextCert() yields after it, up to its nil, are those of a
\* fresh iteration of the store.
C7_ResetRestartsIteration ==
    /\ (last.op = "reset" /\ last.err = NilErr)
           => st.prev = NilCtx /\ st.err = NilErr /\ iter.produced = <<>>
    /\ (iter.afterReset /\ ~st.closed) => IsPrefix(iter.produced, FreshIteration)
    /\ (iter.afterReset /\ ~last.wasClosed /\ last.op = "nextCert" /\ last.ctx = NilCtx)
           => iter.produced = FreshIteration

\* Witness of C7: a pass begun by reset() has ended after two entries.
C7_Witness ==
    /\ iter.afterReset
    /\ last.op = "nextCert"
    /\ last.ctx = NilCtx
    /\ ~st.closed
    /\ Len(iter.produced) >= 2

\* C8: after nextCert() returned nil on an open store, getError() returns
\* no error exactly when the native failure recorded is the not-found code,
\* which is when no entry of the store is unreadable, and the recorded
\* error with its native code otherwise.
C8_GetErrorHidesOnlyNotFound ==
    (last.op = "getError" /\ ~st.closed /\ st.err # NilErr)
        => /\ last.err = NilErr <=> Cause(st.err) = cryptENotFound
           /\ last.err = NilErr <=> nat.fault["MY"] = 0
           /\ last.err # NilErr
                  => /\ last.err = st.err
                     /\ last.err.code = nat.faultCode
                     /\ last.err.msgs = <<"CertFindCertificateInStore failed">>

\* Witness of C8: the end of a non-empty store is not reported.
C8_Witness ==
    /\ last.op = "getError"
    /\ ~st.closed
    /\ Cause(st.err) = cryptENotFound
    /\ last.err = NilErr
    /\ iter.produced # <<>>

\* C9: once an identity caches a private key, GetSigner and the
\* getPrivateKey call of Destroy return that key and acquire no other; an
\* identity acquires a key at most once.
C9_SignerMemoized ==
    /\ \A i \in 1 .. Len(heap) : heap[i].acqs <= 1
    /\ (last.op \in {"GetSigner", "Destroy"} /\ last.hadKey # NilKey)
           => /\ heap[last.id].signer = last.hadKey
              /\ Count(nat.log, "CryptAcquireCertificatePrivateKey") = 0
              /\ last.op = "GetSigner" => last.key = last.hadKey /\ last.err = NilErr
              /\ last.key # NilKey => last.key = last.hadKey

\* Witness of C9: Destroy deleted the key GetSigner had cached.
C9_Witness ==
    /\ last.op = "Destroy"
    /\ last.hadKey # NilKey
    /\ last.key = last.hadKey
    /\ last.err = NilErr

\* C10: Sign with a digest whose length is not the size of the hash fails
\* with the digest error before any native call, on either backend.
C10_DigestLengthChecked ==
    (last.op = "Sign" /\ last.in.digestLen # HashSize(last.in.hash))
        => /\ last.err = New("bad digest for hash")
           /\ nat.log = <<>>
           /\ nat.hashes = 0

\* Witness of C10: a 20-byte digest for MD5 on the CryptoAPI backend.
C10_Witness ==
    /\ last.op = "Sign"
    /\ last.in.hash = "MD5"
    /\ last.in.digestLen = 20
    /\ last.key.capiProv # 0
    /\ last.err = New("bad digest for hash")

\* The native calls that resolve or delete a private key.
KeyCalls ==
    {"CryptFindCertificateKeyProvInfo", "CryptAcquireCertificatePrivateKey",
     "NCryptDeleteKey", "CryptGetProvParam", "CryptAcquireContext"}

\* The positions of the log at which one of the calls was made.
Positions(log, calls) == {k \in 1 .. Len(log) : log[k] \in calls}

\* C11: Destroy deletes the certificate before it resolves and deletes the
\* key.  When the certificate delete fails no key call is made; when it
\* succeeds and Destroy then fails on the key, the certificate stays absent
\* from the store.
C11_DestroyCertificateFirst ==
    last.op = "Destroy"
        => /\ Count(nat.log, "CertDeleteCertificateFromStore") = 1
           /\ \A k \in Positions(nat.log, KeyCalls) :
                  \E c \in Positions(nat.log, {"CertDeleteCertificateFromStore"}) : c < k
           /\ (last.err # NilErr
               /\ last.err.msgs[1] = "failed to delete certificate from store")
                  => Positions(nat.log, KeyCalls) = {}
           /\ (last.err = NilErr
               \/ last.err.msgs[1] # "failed to delete certificate from store")
                  => ~Contains(nat.sys, heap[last.id].ctx[2])
           /\ Positions(nat.log, {"NCryptDeleteKey", "CryptAcquireContext"}) # {}
                  => last.key # NilKey

\* Witness of C11: the certificate is gone and deleting the key failed.
C11_Witness ==
    /\ last.op = "Destroy"
    /\ last.err # NilErr
    /\ last.err.msgs[1] = "failed to delete identity private key"
    /\ ~Contains(nat.sys, heap[last.id].ctx[2])
    /\ Positions(nat.log, KeyCalls) # {}

\* Exactly one backend field of a key is populated.
OneBackend(k) == (k.capiProv # 0) # (k.cngHandle # 0)

\* C12: a key newWinPrivateKey returns has exactly one backend field
\* populated, the one its keySpec selects (the CNG handle exactly for
\* CERT_NCRYPT_KEY_SPEC), and Sign, Delete and Close leave the key as it was.
C12_OneBackendField ==
    /\ OneBackend(pk)
    /\ pk.capiProv # 0 => pk.keySpec # CERT_NCRYPT_KEY_SPEC
    /\ \A c \in {1, 2}, o \in KeyOutcomes :
           \A k \in {newWinPrivateKey(nat, <<"MY", c>>, PubOf(c), o)} :
               k.err = NilErr
                   => /\ OneBackend(k.key)
                      /\ k.key.cngHandle # 0 <=> KeySpecOf(o) = CERT_NCRYPT_KEY_SPEC
    /\ last.op \in {"newWinPrivateKey", "Sign", "Delete", "KeyClose"} => last.key = pk

\* Witness of C12: a CNG key after its Delete succeeded.
C12_Witness ==
    /\ last.op = "Delete"
    /\ last.err = NilErr
    /\ pk.cngHandle # 0
    /\ pk.capiProv = 0

\* C13: over nextCert, reset and Close on one store the collection handle is
\* released at most once and the cursor reference never twice (not by two of
\* reset and Close, not after the native find consumed it), and Close
\* releases the cursor before the collection handle.
C13_StoreReleasesOnce ==
    /\ ~nat.badFree
    /\ ~nat.badStore
    /\ (~st.closed /\ st.prev # NilCtx) => nat.refs[st.prev] = 1
    /\ st.closed => /\ nat.hs[st.store] = "closed"
                    /\ \A c \in Ctxs : nat.refs[c] = 0
    /\ (last.op \in {"nextCert", "reset", "Close"} /\ last.wasClosed) => nat.log = <<>>
    /\ (last.op = "Close" /\ ~last.wasClosed)
           => nat.log \in {<<"CertCloseStore">>,
                           <<"CertFreeCertificateContext", "CertCloseStore">>}
    /\ (last.op = "reset" /\ ~last.wasClosed)
           => nat.log \in {<<>>, <<"CertFreeCertificateContext">>}
    /\ (last.op = "nextCert" /\ last.ctx = NilCtx /\ ~last.wasClosed) => st.prev = NilCtx

\* Witness of C13: a second Close, after an iteration that was reset and
\* produced a certificate again.
C13_Witness ==
    /\ last.op = "Close"
    /\ last.wasClosed
    /\ iter.afterReset
    /\ iter.produced # <<>>
    /\ st.prev # NilCtx

\* C14: no store or identity operation aborts the process; a failed
\* certificate or key-pair lookup in the PKCS#11 store's Identities() comes
\* back to the caller as an error value.
C14_FailuresAreValues ==
    /\ ~nat.aborted
    /\ (last.op = "linuxIdentities" /\ "error" \in {last.in.cert, last.in.key})
           => last.err # NilErr

\* C16: on the PKCS#11 store Import fails with the not-supported error for
\* every input and Delete on an identity fails with it in every state, and
\* neither changes the store, the token context or an identity.
C16_NotSupported ==
    [][last'.op \in {"linuxImport", "linuxDelete"}
           => /\ last'.err = ErrLinuxNoU
              /\ nat'.log = <<>>
              /\ [nat' EXCEPT !.log = <<>>] = [nat EXCEPT !.log = <<>>]
              /\ st' = st
              /\ heap' = heap]_vars

\* Witness of C16: Delete on an identity after the store was closed and
\* an Import had been refused.
C16_Witness ==
    /\ last.op = "linuxDelete"
    /\ last.err = ErrLinuxNoU
    /\ nat.closed
    /\ heap[last.id].cert = SerialCert

\* The identities the caller holds and has not closed that refer to ctx.
Holders(ctx) ==
    {i \in 1 .. Len(heap) : heap[i].held /\ heap[i].calls = 0 /\ heap[i].ctx = ctx}

\* C15: an identity FindIdentities returned holds a reference of its own to
\* its certificate: whatever the store cursor did since (advance, reset,
\* Close), the certificate's reference count covers every identity that has
\* not been closed itself, and is at least 1 for each.
C15_IdentityOwnsReference ==
    /\ \A c \in Ctxs : nat.refs[c] >= Cardinality(Holders(c))
    /\ ~nat.badUse
    /\ ~nat.badFree

\* Witness of C15: FindIdentities returned two identities and closed its
\* store; one identity was closed since, the other is still held.
C15_Witness ==
    /\ last.op = "IdentClose"
    /\ nat.hs["FIND"] = "closed"
    /\ \E i \in 1 .. Len(heap), j \in 1 .. Len(heap) :
           /\ heap[i].ctx[1] = "FIND" /\ heap[i].calls = 1 /\ heap[i].held
           /\ heap[j].ctx[1] = "FIND" /\ heap[j].calls = 0 /\ heap[j].held
           /\ nat.refs[heap[j].ctx] = 1

\* C17: on the CryptoAPI signing path a failed CryptCreateHash leaves no
\* hash object to destroy and none is destroyed; a created hash object is
\* destroyed exactly once, as the last native call of capiSignHash, on every
\* exit (size query failure, size mismatch, digest injection failure,
\* length-query failure, signing failure, success).
C17_HashDestroyedOnce ==
    (last.op = "Sign" /\ pk.capiProv # 0)
        => /\ nat.hashes = 0
           /\ (~Contains(nat.log, "CryptCreateHash") \/ last.in.fail = "create")
                  => Count(nat.log, "CryptDestroyHash") = 0
           /\ (Contains(nat.log, "CryptCreateHash") /\ last.in.fail # "create")
                  => /\ Count(nat.log, "CryptDestroyHash") = 1
                     /\ nat.log[Len(nat.log)] = "CryptDestroyHash"
                     /\ nat.log[1] = "CryptCreateHash"
           /\ last.err = NilErr => Contains(nat.log, "CryptCreateHash")

\* Witness of C17: the digest injection failed after the hash object had
\* been created.
C17_Witness ==
    /\ last.op = "Sign"
    /\ pk.capiProv # 0
    /\ last.err # NilErr
    /\ last.err.msgs[1] = "failed to set hash digest"
    /\ Count(nat.log, "CryptDestroyHash") = 1

\* C18: for every signature of n >= 1 bytes CryptSignHash writes, of odd or
\* even length, capiSignHash returns exactly the bytes in reverse order (the
\* middle byte of an odd length stays where it is).
C18_LegacySignatureReversed ==
    (last.op = "Sign" /\ pk.capiProv # 0 /\ last.err = NilErr)
        => /\ Len(last.sig) = Len(last.in.sig)
           /\ Len(last.sig) >= 1
           /\ \A k \in 1 .. Len(last.sig) :
                  last.sig[k] = last.in.sig[Len(last.in.sig) + 1 - k]

\* Witness of C18: a signature of odd length that is not its own reverse.
C18_Witness ==
    /\ last.op = "Sign"
    /\ pk.capiProv # 0
    /\ last.err = NilErr
    /\ last.in.sig = <<0, 200, 200>>
    /\ last.sig = <<200, 200, 0>>

RECURSIVE Pow256(_)
Pow256(k) == IF k = 0 THEN 1 ELSE 256 * Pow256(k - 1)

\* The unsigned number a byte sequence denotes, most significant byte first.
RECURSIVE BigEndian(_)
BigEndian(b) ==
    IF b = <<>> THEN 0 ELSE b[1] * Pow256(Len(b) - 1) + BigEndian(Tail(b))

\* Reading a DER SEQUENCE of two INTEGERs: where the second INTEGER starts,
\* whether the lengths add up, and the two numbers.
SecondAt(der) == 4 + der[4] + 1
IsIntegerPair(der) ==
    /\ Len(der) >= 8
    /\ der[1] = 48 /\ der[2] = Len(der) - 2
    /\ der[3] = 2 /\ der[4] >= 1
    /\ Len(der) >= SecondAt(der) + 2
    /\ der[SecondAt(der)] = 2
    /\ der[SecondAt(der) + 1] >= 1
    /\ Len(der) = SecondAt(der) + 1 + der[SecondAt(der) + 1]
FirstInteger(der) == BigEndian(SubSeq(der, 5, 4 + der[4]))
SecondInteger(der) == BigEndian(SubSeq(der, SecondAt(der) + 2, Len(der)))

\* The two NCryptSignHash calls of the last Sign were made and succeeded.
CngSigned ==
    /\ last.op = "Sign"
    /\ pk.cngHandle # 0
    /\ last.in.digestLen = HashSize(last.in.hash)
    /\ pk.publicKey = "rsa" => last.in.hash \in SupportedHashes
    /\ last.in.fail \notin {"siglen", "sign"}

\* C19: on the CNG path with an elliptic-curve key a raw signature of odd
\* length is refused with the bad-signature-length error, and one of 2k
\* bytes gives the record (r, s) with r the big-endian unsigned value of its
\* first k bytes and s that of its last k; with an RSA key the native bytes
\* are returned as they are.
C19_CngSignatureEncoding ==
    CngSigned
        => /\ (pk.publicKey = "ec" /\ Len(last.in.sig) % 2 = 1)
                  => /\ last.err = New("bad ecdsa signature from CNG")
                     /\ last.sig = <<>>
           /\ (pk.publicKey = "ec" /\ Len(last.in.sig) % 2 = 0)
                  => /\ last.err = NilErr
                     /\ IsIntegerPair(last.sig)
                     /\ FirstInteger(last.sig)
                            = BigEndian(SubSeq(last.in.sig, 1, Len(last.in.sig) \div 2))
                     /\ SecondInteger(last.sig)
                            = BigEndian(SubSeq(last.in.sig, Len(last.in.sig) \div 2 + 1,
                                               Len(last.in.sig)))
           /\ pk.publicKey = "rsa"
                  => /\ last.err = NilErr
                     /\ last.sig = last.in.sig

\* Witness of C19: a raw signature of four bytes whose halves read
\* differently in the two byte orders.
C19_Witness ==
    /\ CngSigned
    /\ pk.publicKey = "ec"
    /\ last.in.sig = <<0, 200, 200, 0>>
    /\ last.err = NilErr
    /\ FirstInteger(last.sig) = 200
    /\ SecondInteger(last.sig) = 51200

\* C20: once nextCert() has returned nil (the store then records an error),
\* every further nextCert() returns nil without calling the native find and
\* without changing the cursor or the recorded error, until reset(); an
\* exhausted iteration never restarts by itself.
C20_FailureSticky ==
    [][(st.err # NilErr /\ last'.op = "nextCert")
           => /\ last'.ctx = NilCtx
              /\ nat'.log = <<>>
              /\ st'.prev = st.prev
              /\ st'.err = st.err
              /\ iter'.produced = iter.produced]_vars

\* C20, amended: as above, except that a nextCert() on a store closed in the
\* meantime replaces the recorded error by the store-closed error.
C20_FailureStickyUnlessClosed ==
    [][(st.err # NilErr /\ last'.op = "nextCert")
           => /\ last'.ctx = NilCtx
              /\ nat'.log = <<>>
              /\ st'.prev = st.prev
              /\ st'.err = (IF st.closed THEN ErrStoreClosed ELSE st.err)
              /\ iter'.produced = iter.produced]_vars

\* Witness of C20: a nextCert() after the iteration was exhausted, on a
\* store that is still open and holds certificates.
C20_Witness ==
    /\ last.op = "nextCert"
    /\ last.ctx = NilCtx
    /\ nat.log = <<>>
    /\ ~st.closed
    /\ Cause(st.err) = cryptENotFound
    /\ iter.produced # <<>>

\* The native release winPrivateKey.Close makes for a key.
ReleaseCall(k) == IF k.cngHandle # 0 THEN "NCryptFreeObject" ELSE "CryptReleaseContext"

\* C21: Destroy closes and clears nothing it used: when it returns, with or
\* without an error, the identity is still open, an identity no Close() was
\* called on still owns its certificate reference, and the private key it
\* resolved (now or earlier) is still cached with its backend field
\* populated; so a later Close() of the identity makes the native release
\* on that key's handle, also when Delete() has been called on the key.
C21_DestroyKeepsEverything ==
    /\ last.op = "Destroy"
           => /\ ~heap[last.id].closed
              /\ heap[last.id].ctx # NilCtx
              /\ heap[last.id].calls = 0 => nat.refs[heap[last.id].ctx] >= 1
              /\ last.hadKey # NilKey => heap[last.id].signer = last.hadKey
              /\ last.key # NilKey
                     => /\ heap[last.id].signer = last.key
                        /\ OneBackend(last.key)
                        /\ Positions(nat.log, {"NCryptFreeObject", "CryptReleaseContext"}) = {}
    /\ (last.op = "IdentClose" /\ heap[last.id].signer # NilKey)
           => /\ Count(nat.log, ReleaseCall(heap[last.id].signer)) = 1
              /\ nat.log[Len(nat.log)] = "CertFreeCertificateContext"

\* Witness of C21: the first Close() of an identity whose CNG key a Destroy
\* deleted: NCryptFreeObject is called on the handle NCryptDeleteKey
\* released.
C21_Witness ==
    /\ last.op = "IdentClose"
    /\ ~last.wasClosed
    /\ heap[last.id].signer.cngHandle \in nat.deletedKeys
    /\ Count(nat.log, "NCryptFreeObject") = 1
    /\ nat.badKey

====
